---- MODULE Spec2Model ----
(***************************************************************************)
(* Model of the next-learn dashboard core: the authorization gate of the   *)
(* middleware, the invoice mutation pipeline (createInvoice,               *)
(* updateInvoice, deleteInvoice), the invoices table they write, a second   *)
(* deleteInvoice in flight at the same time, the tables customers, users   *)
(* and revenue, and the reads of the data-access layer and of the pages.   *)
(*                                                                         *)
(* Strings whose characters the code inspects (request paths, the amount   *)
(* form field) are sequences of one-character strings.                     *)
(***************************************************************************)
EXTENDS Integers, Sequences, FiniteSets, TLC

VARIABLES req, invoices, nextId, today, mut, rd, del, tables

vars == <<req, invoices, nextId, today, mut, rd, del, tables>>

(***************************************************************************)
(* Bounds of the model.                                                    *)
(***************************************************************************)
\* how many store reads one page handler issues at most
MaxReads == 2
\* how many invoice ids the store ever generates
MaxInvoices == 1
\* the last calendar day the clock reaches
MaxDay == 2
\* how many redirects a browser follows for one request
MaxHops == 2

(***************************************************************************)
(* Strings as character sequences.                                         *)
(***************************************************************************)
StartsWith(s, p) == Len(s) >= Len(p) /\ SubSeq(s, 1, Len(p)) = p

EndsWith(s, p) == Len(s) >= Len(p) /\ SubSeq(s, Len(s) - Len(p) + 1, Len(s)) = p

\* the request paths the model sends
RootPath == <<"/">>
LoginPath == <<"/", "l", "o", "g", "i", "n">>
DashboardPath == <<"/", "d", "a", "s", "h", "b", "o", "a", "r", "d">>
InvoicesPath == DashboardPath \o <<"/", "i", "n", "v", "o", "i", "c", "e", "s">>
DashboardsPath == DashboardPath \o <<"s">>
DashboardPngPath == DashboardPath \o <<"/", "a", ".", "p", "n", "g">>
ApiPath == <<"/", "a", "p", "i", "/", "s", "e", "e", "d">>
AboutPath == <<"/", "a", "b", "o", "u", "t">>

Paths ==
  { RootPath, LoginPath, DashboardPath, InvoicesPath, DashboardsPath,
    DashboardPngPath, ApiPath, AboutPath }

(***************************************************************************)
(* The authorization gate: authConfig of auth.config.ts.                   *)
(***************************************************************************)
\* a sign-in page placed under the dashboard
signInInside == InvoicesPath

\* authConfig.pages.signIn
signIn == LoginPath

\* the session object handed to the callback: no session, or one with a user
NoAuth == [user |-> "none"]
UserAuth == [user |-> "u1"]
Auths == {NoAuth, UserAuth}

\* what the callback returns: true, false, or a redirect Response
RetTrue == [ret |-> "true", to |-> <<>>]
RetFalse == [ret |-> "false", to |-> <<>>]
RetRedirect(url) == [ret |-> "redirect", to |-> url]

\* const isLoggedIn = !!auth?.user
isLoggedIn(auth) == auth.user # "none"

\* const isOnDashboard = nextUrl.pathname.startsWith('/dashboard')
isOnDashboard(pathname) == StartsWith(pathname, DashboardPath)

\* a callback that lets everybody into the dashboard
authorizedOpen(auth, pathname) ==
  IF isOnDashboard(pathname)
  THEN RetTrue
  ELSE IF isLoggedIn(auth) THEN RetRedirect(DashboardPath) ELSE RetTrue

\* a callback that sends logged-in users nowhere
authorizedNoRedirect(auth, pathname) ==
  IF isOnDashboard(pathname)
  THEN IF isLoggedIn(auth) THEN RetTrue ELSE RetFalse
  ELSE RetTrue

\* authConfig.callbacks.authorized
authorized(auth, pathname) ==
  IF isOnDashboard(pathname)
  THEN IF isLoggedIn(auth) THEN RetTrue ELSE RetFalse
  ELSE IF isLoggedIn(auth) THEN RetRedirect(DashboardPath) ELSE RetTrue

\* The decision the middleware takes from the callback's return value:
\* true lets the request through, false redirects to the sign-in page, a
\* Response is sent as it is.
Allow == [kind |-> "Allow", to |-> <<>>]
DenyRedirect(url) == [kind |-> "DenyRedirect", to |-> url]
RedirectAway(url) == [kind |-> "RedirectAway", to |-> url]
NoDecision == [kind |-> "none", to |-> <<>>]

Gate(auth, pathname) ==
  LET r == authorized(auth, pathname)
  IN  CASE r.ret = "true" -> Allow
        [] r.ret = "false" -> DenyRedirect(signIn)
        [] OTHER -> RedirectAway(r.to)

\* a matcher that leaves the dashboard out
matcherSkipsDashboard(pathname) ==
  /\ StartsWith(pathname, <<"/">>)
  /\ ~StartsWith(Tail(pathname), Tail(DashboardPath))

\* config.matcher: '/((?!api|_next/static|_next/image|.*\\.png$).*)'
matcher(pathname) ==
  /\ StartsWith(pathname, <<"/">>)
  /\ LET rest == Tail(pathname)
     IN  /\ ~StartsWith(rest, <<"a", "p", "i">>)
         /\ ~StartsWith(rest, <<"_", "n", "e", "x", "t", "/", "s", "t", "a", "t", "i", "c">>)
         /\ ~StartsWith(rest, <<"_", "n", "e", "x", "t", "/", "i", "m", "a", "g", "e">>)
         /\ ~EndsWith(rest, <<".", "p", "n", "g">>)

\* the pages of the app directory that have a handler, and those under
\* /dashboard, whose handlers read the store
Routes == {RootPath, LoginPath, DashboardPath, InvoicesPath}
ProtectedRoutes == {DashboardPath, InvoicesPath}

(***************************************************************************)
(* JavaScript numbers.  Number(string) and amount * 100 are IEEE 754       *)
(* double operations; they are computed here on binary expansions (bit     *)
(* sequences, most significant bit first) of unbounded length, rounded to  *)
(* 53 significant bits, ties to even.                                      *)
(***************************************************************************)
\* the binary expansion of n, and the number a binary expansion spells
BitLength(n) == IF n = 0 THEN 0 ELSE CHOOSE l \in 1..31 : 2^(l - 1) <= n /\ (l = 31 \/ n < 2^l)

NatToBits(n) == [i \in 1..BitLength(n) |-> (n \div 2^(BitLength(n) - i)) % 2]

RECURSIVE BitsToNat(_)
BitsToNat(b) ==
  IF Len(b) = 0 THEN 0
  ELSE IF Len(b) = 1 THEN b[1]
  ELSE LET h == Len(b) \div 2
       IN  BitsToNat(SubSeq(b, 1, h)) * 2^(Len(b) - h) + BitsToNat(SubSeq(b, h + 1, Len(b)))

Zeros(n) == [i \in 1..n |-> 0]

AllZero(b) == \A i \in 1..Len(b) : b[i] = 0

StripZeros(b) ==
  IF AllZero(b) THEN <<>>
  ELSE SubSeq(b, CHOOSE i \in 1..Len(b) : b[i] = 1 /\ AllZero(SubSeq(b, 1, i - 1)), Len(b))

\* Long multiplication and division work on limbs of LimbBits bits, most
\* significant limb first.
LimbBits == 15
Base == 2^LimbBits

ToLimbs(b) ==
  LET n == (Len(b) + LimbBits - 1) \div LimbBits
      padded == Zeros(n * LimbBits - Len(b)) \o b
  IN  [i \in 1..n |-> BitsToNat(SubSeq(padded, LimbBits * (i - 1) + 1, LimbBits * i))]

FromLimbs(l) ==
  StripZeros([j \in 1..(LimbBits * Len(l)) |->
                (l[(j - 1) \div LimbBits + 1] \div 2^(LimbBits - 1 - ((j - 1) % LimbBits))) % 2])

\* l * k for a small k, by schoolbook multiplication from the last limb
RECURSIVE MulSmallFrom(_, _, _, _)
MulSmallFrom(l, k, i, carry) ==
  IF i = 0
  THEN IF carry = 0 THEN <<>> ELSE <<carry>>
  ELSE LET t == l[i] * k + carry
       IN  Append(MulSmallFrom(l, k, i - 1, t \div Base), t % Base)

MulSmall(b, k) == FromLimbs(MulSmallFrom(ToLimbs(b), k, Len(ToLimbs(b)), 0))

\* l divided by a small d, by long division: quotient limbs and remainder
RECURSIVE DivSmallFrom(_, _, _)
DivSmallFrom(l, d, i) ==
  IF i = 0
  THEN [q |-> <<>>, r |-> 0]
  ELSE LET prev == DivSmallFrom(l, d, i - 1)
           t == prev.r * Base + l[i]
       IN  [q |-> Append(prev.q, t \div d), r |-> t % d]

DivSmall(b, d) ==
  LET res == DivSmallFrom(ToLimbs(b), d, Len(ToLimbs(b)))
  IN  [q |-> FromLimbs(res.q), r |-> res.r]

\* b + 1
Increment(b) ==
  IF \A i \in 1..Len(b) : b[i] = 1
  THEN <<1>> \o Zeros(Len(b))
  ELSE LET j == CHOOSE i \in 1..Len(b) :
                  b[i] = 0 /\ \A h \in (i + 1)..Len(b) : b[h] = 1
       IN  SubSeq(b, 1, j - 1) \o <<1>> \o Zeros(Len(b) - j)

\* the significand of a double has 53 bits
MantissaBits == 53

\* how many fraction bits the quotient of Number(string) is computed to
\* before it is rounded (any number above MantissaBits + 1 plus the bits of
\* the divisor gives the same result)
ScaleBits == 80

\* The nearest double to b * 2^exp (b without leading zeros; sticky says that
\* the exact value lies strictly above b * 2^exp and below (b+1) * 2^exp):
\* [m, e] with value m * 2^e, m of at most 53 bits.
RoundToDouble(b, exp, sticky) ==
  IF Len(b) <= MantissaBits
  THEN [m |-> b, e |-> exp]
  ELSE LET keep == SubSeq(b, 1, MantissaBits)
           guard == b[MantissaBits + 1]
           rest == SubSeq(b, MantissaBits + 2, Len(b))
           dropped == Len(b) - MantissaBits
           up == guard = 1 /\ (sticky \/ ~AllZero(rest) \/ keep[MantissaBits] = 1)
           m == IF up THEN Increment(keep) ELSE keep
       IN  IF Len(m) > MantissaBits
           THEN [m |-> SubSeq(m, 1, MantissaBits), e |-> exp + dropped + 1]
           ELSE [m |-> m, e |-> exp + dropped]

Pow10(k) == 10^k

\* A JavaScript number as the model keeps it: NaN, or sign, integer part of
\* the magnitude, and whether a fraction follows it.
NaN == [nan |-> TRUE, neg |-> FALSE, int |-> 0, frac |-> FALSE]
Num(neg, int, frac) == [nan |-> FALSE, neg |-> neg, int |-> int, frac |-> frac]

\* the double m * 2^e as a model number
DoubleToNum(neg, d) ==
  IF d.e >= 0
  THEN Num(neg, BitsToNat(d.m \o Zeros(d.e)), FALSE)
  ELSE LET cut == IF Len(d.m) > -d.e THEN Len(d.m) + d.e ELSE 0
       IN  Num(neg, BitsToNat(SubSeq(d.m, 1, cut)),
               ~AllZero(SubSeq(d.m, cut + 1, Len(d.m))))

\* the double nearest to n / 10^k
DecimalToDouble(n, k) ==
  LET quot == DivSmall(NatToBits(n) \o Zeros(ScaleBits), Pow10(k))
  IN  RoundToDouble(quot.q, -ScaleBits, quot.r # 0)

\* the double nearest to d * k, k a small integer
DoubleTimes(d, k) == RoundToDouble(MulSmall(d.m, k), d.e, FALSE)

\* the double nearest to d / k, k a small integer
DoubleOver(d, k) ==
  LET quot == DivSmall(d.m \o Zeros(ScaleBits), k)
  IN  RoundToDouble(quot.q, d.e - ScaleBits, quot.r # 0)

Digits == {"0", "1", "2", "3", "4", "5", "6", "7", "8", "9"}

DigitValue(c) ==
  CASE c = "0" -> 0 [] c = "1" -> 1 [] c = "2" -> 2 [] c = "3" -> 3
    [] c = "4" -> 4 [] c = "5" -> 5 [] c = "6" -> 6 [] c = "7" -> 7
    [] c = "8" -> 8 [] OTHER -> 9

RECURSIVE DigitsValue(_)
DigitsValue(s) ==
  IF s = <<>> THEN 0
  ELSE 10 * DigitsValue(SubSeq(s, 1, Len(s) - 1)) + DigitValue(s[Len(s)])

\* The decimal literal a string spells, [ok, neg, n, k] with value
\* (-)n / 10^k: an optional sign, digits, an optional point and digits, at
\* least one digit in all.  The empty string is the number 0.
ParseDecimal(s) ==
  LET signed == s # <<>> /\ s[1] \in {"-", "+"}
      body == IF signed THEN Tail(s) ELSE s
      points == {i \in 1..Len(body) : body[i] = "."}
      point == IF points = {} THEN Len(body) + 1 ELSE CHOOSE i \in points : TRUE
      whole == SubSeq(body, 1, point - 1)
      fraction == SubSeq(body, point + 1, Len(body))
      digits == whole \o fraction
      ok == /\ Cardinality(points) <= 1
            /\ digits # <<>>
            /\ \A i \in 1..Len(digits) : digits[i] \in Digits
  IN  IF s = <<>>
      THEN [ok |-> TRUE, neg |-> FALSE, n |-> 0, k |-> 0]
      ELSE [ok |-> ok, neg |-> signed /\ s[1] = "-",
            n |-> IF ok THEN DigitsValue(digits) ELSE 0,
            k |-> Len(fraction)]

(***************************************************************************)
(* Requests.                                                               *)
(***************************************************************************)
Reqs == {"r1", "r2"}

IdleReq ==
  [pc |-> "idle", auth |-> NoAuth, path |-> <<>>, decision |-> NoDecision,
   hops |-> 0, reads |-> 0]

\* a request for path p arrives with session auth
Arrive(r, auth, p) ==
  /\ req[r].pc = "idle"
  /\ req' = [req EXCEPT ![r] = [IdleReq EXCEPT !.pc = "middleware",
                                               !.auth = auth, !.path = p]]
  /\ UNCHANGED <<invoices, nextId, today, mut, rd, del, tables>>

\* export default NextAuth(authConfig).auth: the middleware runs the gate on
\* the paths the matcher selects, before the route is rendered
Middleware(r) ==
  /\ req[r].pc = "middleware"
  /\ req' = [req EXCEPT ![r].pc = "routed",
                        ![r].decision =
                           IF matcher(req[r].path)
                           THEN Gate(req[r].auth, req[r].path)
                           ELSE NoDecision]
  /\ UNCHANGED <<invoices, nextId, today, mut, rd, del, tables>>

\* the browser follows a redirect with the same session
FollowRedirect(r) ==
  /\ req[r].pc = "routed"
  /\ req[r].decision.kind \in {"DenyRedirect", "RedirectAway"}
  /\ req[r].hops < MaxHops
  /\ req' = [req EXCEPT ![r].pc = "middleware",
                        ![r].path = req[r].decision.to,
                        ![r].decision = NoDecision,
                        ![r].hops = req[r].hops + 1]
  /\ UNCHANGED <<invoices, nextId, today, mut, rd, del, tables>>

\* the page handler of the route starts
StartHandler(r) ==
  /\ req[r].pc = "routed"
  /\ req[r].decision.kind \in {"Allow", "none"}
  /\ req[r].path \in Routes
  /\ req' = [req EXCEPT ![r].pc = "handling"]
  /\ UNCHANGED <<invoices, nextId, today, mut, rd, del, tables>>

\* a handler of a dashboard page reads the store
HandlerRead(r) ==
  /\ req[r].pc = "handling"
  /\ req[r].path \in ProtectedRoutes
  /\ req[r].reads < MaxReads
  /\ req' = [req EXCEPT ![r].reads = req[r].reads + 1]
  /\ UNCHANGED <<invoices, nextId, today, mut, rd, del, tables>>

\* the response is sent (a page, a redirect nobody follows, or a 404)
Respond(r) ==
  /\ req[r].pc \in {"routed", "handling"}
  /\ req' = [req EXCEPT ![r] = IdleReq]
  /\ UNCHANGED <<invoices, nextId, today, mut, rd, del, tables>>

(***************************************************************************)
(* The store: the invoices table and the customers it refers to.           *)
(***************************************************************************)
Customers == {"c1", "c2"}

InvoiceIds == 1..MaxInvoices

Ids(table) == {row.id : row \in table}

(***************************************************************************)
(* The mutation pipeline: the server actions of actions.ts.                *)
(***************************************************************************)
\* formData.get(name) of a field the form did not send
Null == "(null)"

\* the values the form fields take
CustomerIdInputs == Customers \cup {Null}
AmountInputs ==
  { <<"4", "5", ".", "0", "0">>, <<"1", "9", ".", "9", "9">>, <<"0">>,
    <<"-", "5">>, <<"a", "b", "c">> }
StatusInputs == {"pending", "paid", "draft"}

Forms == [customerId : CustomerIdInputs, amount : AmountInputs, status : StatusInputs]

NoForm == [customerId |-> Null, amount |-> <<>>, status |-> Null]

\* Number(value) of a form string
ToNumber(s) ==
  LET p == ParseDecimal(s)
  IN  IF p.ok THEN DoubleToNum(p.neg, DecimalToDouble(p.n, p.k)) ELSE NaN

\* value * 100 of a form string that is a number
TimesHundred(s) ==
  LET p == ParseDecimal(s)
  IN  DoubleToNum(p.neg, DoubleTimes(DecimalToDouble(p.n, p.k), 100))

\* both, worked out once for the amounts the forms hold
AmountNumbers ==
  [s \in AmountInputs |->
     [number |-> ToNumber(s),
      cents |-> IF ToNumber(s).nan THEN NaN ELSE TimesHundred(s)]]

\* customerId: z.string()
customerIdValid(v) == v # Null

\* amount: z.coerce.number(): Number(value), which must not be NaN
amountValid(v) == ~AmountNumbers[v].number.nan

\* status: z.enum(['pending', 'paid'])
statusValid(v) == v \in {"pending", "paid"}

\* a parse that stops at the first field it finds invalid
parseIssuesFirstOnly(form) ==
  IF ~customerIdValid(form.customerId) THEN {"customerId"}
  ELSE IF ~amountValid(form.amount) THEN {"amount"}
  ELSE IF ~statusValid(form.status) THEN {"status"}
  ELSE {}

\* CreateInvoice.parse(rawFormData), UpdateInvoice.parse({...}): the fields
\* the ZodError it throws has an issue for (none when the parse succeeds)
parseIssues(form) ==
  {f \in {"customerId", "amount", "status"} :
     \/ f = "customerId" /\ ~customerIdValid(form.customerId)
     \/ f = "amount" /\ ~amountValid(form.amount)
     \/ f = "status" /\ ~statusValid(form.status)}

\* const amountInCents = amount * 100, amount the coerced number
amountInCents(amount) == AmountNumbers[amount].cents

\* the integer a number is, when it is one
IntOf(x) == IF x.neg THEN -x.int ELSE x.int

\* the store takes a parameter for the INTEGER column amount when its text
\* is an integer literal
storeAcceptsAmount(x) == ~x.nan /\ ~x.frac

\* What a run of a server action keeps: op, id and form are what it was
\* called with, data what it computed, issues and error what it threw, steps
\* the effects it has had so far; before and day record the table and the
\* date it was called on.
NoData == [customerId |-> Null, amount |-> NaN, status |-> Null, date |-> 0]

IdleMut ==
  [pc |-> "idle", op |-> "none", id |-> 0, form |-> NoForm, data |-> NoData,
   issues |-> {}, error |-> "none", steps |-> <<>>, before |-> {}, day |-> 0]

\* where a run of a server action ends
Ended == {"rejected", "failed", "redirected", "done"}

\* the part of createInvoice and updateInvoice before the await: the parse,
\* which throws, then the amount in cents and the date, then the statement
SubmitForm(op, id, form) ==
  /\ mut.pc = "idle"
  /\ LET issues == parseIssues(form)
         started == [IdleMut EXCEPT !.op = op, !.id = id, !.form = form,
                                    !.before = invoices, !.day = today]
     IN  mut' = IF issues # {}
                THEN [started EXCEPT !.pc = "rejected", !.issues = issues,
                                     !.error = "ZodError"]
                ELSE [started EXCEPT
                        !.pc = "awaitSql",
                        !.data = [customerId |-> form.customerId,
                                  amount |-> amountInCents(form.amount),
                                  status |-> form.status,
                                  date |-> IF op = "create" THEN today ELSE 0]]
  /\ UNCHANGED <<req, invoices, nextId, today, rd, del, tables>>

\* createInvoice(formData)
createInvoice(form) ==
  /\ nextId <= MaxInvoices
  /\ SubmitForm("create", 0, form)

\* updateInvoice(id, formData)
updateInvoice(id, form) == SubmitForm("update", id, form)

\* deleteInvoice(id): the statement is sent at once
deleteInvoice(id) ==
  /\ mut.pc = "idle"
  /\ mut' = [IdleMut EXCEPT !.pc = "awaitSql", !.op = "delete", !.id = id,
                            !.before = invoices, !.day = today]
  /\ UNCHANGED <<req, invoices, nextId, today, rd, del, tables>>

\* an UPDATE without its WHERE: every row takes the fields of the form
WrittenEveryRow(table) ==
  CASE mut.op = "create" ->
         table \cup {[id |-> nextId, customer_id |-> mut.data.customerId,
                      amount |-> IntOf(mut.data.amount),
                      status |-> mut.data.status, date |-> mut.data.date]}
    [] mut.op = "update" ->
         {[row EXCEPT !.customer_id = mut.data.customerId,
                      !.amount = IntOf(mut.data.amount),
                      !.status = mut.data.status] : row \in table}
    [] OTHER -> {row \in table : row.id # mut.id}

\* the table after the statement of the mutation in flight
Written(table) ==
  CASE mut.op = "create" ->
         table \cup {[id |-> nextId, customer_id |-> mut.data.customerId,
                      amount |-> IntOf(mut.data.amount),
                      status |-> mut.data.status, date |-> mut.data.date]}
    [] mut.op = "update" ->
         {IF row.id = mut.id
          THEN [row EXCEPT !.customer_id = mut.data.customerId,
                           !.amount = IntOf(mut.data.amount),
                           !.status = mut.data.status]
          ELSE row : row \in table}
    [] OTHER -> {row \in table : row.id # mut.id}

\* a store that fails a statement whose WHERE matches no row
StoreWriteStrict(up) ==
  /\ mut.pc = "awaitSql"
  /\ IF ~up
     THEN /\ mut' = [mut EXCEPT !.pc = "failed", !.error = "StoreDown"]
          /\ UNCHANGED <<invoices, nextId>>
     ELSE IF mut.op # "delete" /\ ~storeAcceptsAmount(mut.data.amount)
     THEN /\ mut' = [mut EXCEPT !.pc = "failed", !.error = "StoreSyntax"]
          /\ UNCHANGED <<invoices, nextId>>
     ELSE IF mut.op # "create" /\ mut.id \notin Ids(invoices)
     THEN /\ mut' = [mut EXCEPT !.pc = "failed", !.error = "StoreNoRow"]
          /\ UNCHANGED <<invoices, nextId>>
     ELSE /\ invoices' = Written(invoices)
          /\ nextId' = IF mut.op = "create" THEN nextId + 1 ELSE nextId
          /\ mut' = [mut EXCEPT !.pc = "persisted", !.steps = <<"write">>]
  /\ UNCHANGED <<req, today, rd, del, tables>>

\* a server action whose INSERT also creates the customer it names
StoreWriteWithCustomer(up) ==
  /\ mut.pc = "awaitSql"
  /\ IF ~up
     THEN /\ mut' = [mut EXCEPT !.pc = "failed", !.error = "StoreDown"]
          /\ UNCHANGED <<invoices, nextId, tables>>
     ELSE IF mut.op # "delete" /\ ~storeAcceptsAmount(mut.data.amount)
     THEN /\ mut' = [mut EXCEPT !.pc = "failed", !.error = "StoreSyntax"]
          /\ UNCHANGED <<invoices, nextId, tables>>
     ELSE /\ invoices' = Written(invoices)
          /\ nextId' = IF mut.op = "create" THEN nextId + 1 ELSE nextId
          /\ mut' = [mut EXCEPT !.pc = "persisted", !.steps = <<"write">>]
          /\ tables' = IF mut.op = "delete" THEN tables
                       ELSE [tables EXCEPT !.customers =
                               [c \in DOMAIN tables.customers \cup {mut.data.customerId} |->
                                  tables.customers["c1"]]]
  /\ UNCHANGED <<req, today, rd, del>>

\* await sql`INSERT ...`, sql`UPDATE ... WHERE id`, sql`DELETE ... WHERE id`:
\* the store runs the statement and the action resumes, or the store fails
\* (it is down, or it refuses a parameter) and the await throws
StoreWrite(up) ==
  /\ mut.pc = "awaitSql"
  /\ IF ~up
     THEN /\ mut' = [mut EXCEPT !.pc = "failed", !.error = "StoreDown"]
          /\ UNCHANGED <<invoices, nextId>>
     ELSE IF mut.op # "delete" /\ ~storeAcceptsAmount(mut.data.amount)
     THEN /\ mut' = [mut EXCEPT !.pc = "failed", !.error = "StoreSyntax"]
          /\ UNCHANGED <<invoices, nextId>>
     ELSE /\ invoices' = Written(invoices)
          /\ nextId' = IF mut.op = "create" THEN nextId + 1 ELSE nextId
          /\ mut' = [mut EXCEPT !.pc = "persisted", !.steps = <<"write">>]
  /\ UNCHANGED <<req, today, rd, del, tables>>

\* a pipeline that goes on after a failed write
RevalidateAfterFailure ==
  /\ mut.pc \in {"persisted", "failed"}
  /\ mut' = [mut EXCEPT !.pc = "invalidated",
                        !.steps = Append(mut.steps, "revalidatePath")]
  /\ UNCHANGED <<req, invoices, nextId, today, rd, del, tables>>

\* revalidatePath('/dashboard/invoices')
Revalidate ==
  /\ mut.pc = "persisted"
  /\ mut' = [mut EXCEPT !.pc = "invalidated",
                        !.steps = Append(mut.steps, "revalidatePath")]
  /\ UNCHANGED <<req, invoices, nextId, today, rd, del, tables>>

\* a redirect sent as soon as the write is done
RedirectEarly ==
  /\ mut.pc \in {"persisted", "invalidated"}
  /\ mut.op \in {"create", "update"}
  /\ mut' = [mut EXCEPT !.pc = "redirected",
                        !.steps = Append(mut.steps, "redirect")]
  /\ UNCHANGED <<req, invoices, nextId, today, rd, del, tables>>

\* a redirect at the end of every server action
RedirectAlways ==
  /\ mut.pc = "invalidated"
  /\ mut' = [mut EXCEPT !.pc = "redirected",
                        !.steps = Append(mut.steps, "redirect")]
  /\ UNCHANGED <<req, invoices, nextId, today, rd, del, tables>>

\* redirect('/dashboard/invoices'), which ends createInvoice and updateInvoice
Redirect ==
  /\ mut.pc = "invalidated"
  /\ mut.op \in {"create", "update"}
  /\ mut' = [mut EXCEPT !.pc = "redirected",
                        !.steps = Append(mut.steps, "redirect")]
  /\ UNCHANGED <<req, invoices, nextId, today, rd, del, tables>>

\* deleteInvoice returns after the revalidation
Return ==
  /\ mut.pc = "invalidated"
  /\ mut.op = "delete"
  /\ mut' = [mut EXCEPT !.pc = "done"]
  /\ UNCHANGED <<req, invoices, nextId, today, rd, del, tables>>

\* the server action is over: its result, error or redirect goes to the caller
Settle ==
  /\ mut.pc \in Ended
  /\ mut' = IdleMut
  /\ UNCHANGED <<req, invoices, nextId, today, rd, del, tables>>

\* midnight passes
Tick ==
  /\ today < MaxDay
  /\ today' = today + 1
  /\ UNCHANGED <<req, invoices, nextId, mut, rd, del, tables>>

(***************************************************************************)
(* A second server action in flight at the same time: a deleteInvoice of   *)
(* another request.                                                        *)
(***************************************************************************)
IdleDel ==
  [pc |-> "idle", id |-> 0, error |-> "none", steps |-> <<>>, before |-> {}]

\* deleteInvoice(id) of the other request: the statement is sent at once
deleteConcurrently(id) ==
  /\ del.pc = "idle"
  /\ del' = [IdleDel EXCEPT !.pc = "awaitSql", !.id = id, !.before = invoices]
  /\ UNCHANGED <<req, invoices, nextId, today, mut, rd, tables>>

\* await sql`DELETE FROM invoices WHERE id`: one statement, run as a whole
StoreDelete(up) ==
  /\ del.pc = "awaitSql"
  /\ IF ~up
     THEN /\ del' = [del EXCEPT !.pc = "failed", !.error = "StoreDown"]
          /\ UNCHANGED invoices
     ELSE /\ invoices' = {row \in invoices : row.id # del.id}
          /\ del' = [del EXCEPT !.pc = "persisted", !.steps = <<"write">>]
  /\ UNCHANGED <<req, nextId, today, mut, rd, tables>>

\* revalidatePath('/dashboard/invoices') of the other request
RevalidateDelete ==
  /\ del.pc = "persisted"
  /\ del' = [del EXCEPT !.pc = "invalidated",
                        !.steps = Append(del.steps, "revalidatePath")]
  /\ UNCHANGED <<req, invoices, nextId, today, mut, rd, tables>>

\* the deleteInvoice of the other request returns
ReturnDelete ==
  /\ del.pc = "invalidated"
  /\ del' = [del EXCEPT !.pc = "done"]
  /\ UNCHANGED <<req, invoices, nextId, today, mut, rd, tables>>

\* the other request is over
SettleDelete ==
  /\ del.pc \in {"failed", "done"}
  /\ del' = IdleDel
  /\ UNCHANGED <<req, invoices, nextId, today, mut, rd, tables>>

(***************************************************************************)
(* The reads of the data-access layer (data.ts) and the pages that call    *)
(* them.                                                                   *)
(***************************************************************************)
\* What a run of a read keeps: op, query, page and id are what it was called
\* with, qs the statements it has sent with what the store answered, result
\* what it returned, error what it threw.
NoResult == [kind |-> "none", rows |-> <<>>, n |-> 0, customers |-> <<>>]

IdleRd ==
  [pc |-> "idle", op |-> "none", query |-> <<>>, page |-> 0, id |-> 0,
   qs |-> <<>>, result |-> NoResult, error |-> "none"]

\* the customers table: the rows the invoices are joined with
CustomerRows ==
  [c \in Customers |->
     IF c = "c1"
     THEN [name |-> <<"A", "n", "n">>,
           email |-> <<"a", "n", "n", "@", "x", ".", "i", "o">>,
           image_url |-> "/customers/ann.png"]
     ELSE [name |-> <<"B", "o">>,
           email |-> <<"b", "o", "@", "y", ".", "i", "o">>,
           image_url |-> "/customers/bo.png"]]

\* how many rows the invoices table holds at most when the reads start
MaxRows == 8

\* the tables the reads are tried on: n rows of ids 1..n, in two shapes.  In
\* shape 1 every row is pending and every date is different; in shape 2 paid
\* and pending rows alternate and two rows share each date.
Shapes == {1, 2}

SeedRow(i, shape) ==
  [id |-> i,
   customer_id |-> IF i % 2 = 1 THEN "c1" ELSE "c2",
   amount |-> 1500 * i,
   status |-> IF shape = 2 /\ i % 2 = 0 THEN "paid" ELSE "pending",
   date |-> IF shape = 1 THEN i ELSE (i + 1) \div 2]

SeedTable(n, shape) == {SeedRow(i, shape) : i \in 1..n}

SeedTables == {SeedTable(n, shape) : n \in 0..MaxRows, shape \in Shapes}

\* text of the characters of a status
StatusText(status) ==
  CASE status = "pending" -> <<"p", "e", "n", "d", "i", "n", "g">>
    [] status = "paid" -> <<"p", "a", "i", "d">>
    [] OTHER -> <<>>

DigitChars == <<"0", "1", "2", "3", "4", "5", "6", "7", "8", "9">>

\* n::text of a natural number, and of an integer
RECURSIVE NatText(_)
NatText(n) ==
  IF n < 10 THEN <<DigitChars[n + 1]>>
  ELSE Append(NatText(n \div 10), DigitChars[(n % 10) + 1])

IntText(n) == IF n < 0 THEN <<"-">> \o NatText(-n) ELSE NatText(n)

\* date::text: the days of the model are the days of January 2024
DateText(day) ==
  <<"2", "0", "2", "4", "-", "0", "1", "-">>
    \o (IF day < 10 THEN <<"0">> ELSE <<>>) \o NatText(day)

UpperChars ==
  <<"A", "B", "C", "D", "E", "F", "G", "H", "I", "J", "K", "L", "M",
    "N", "O", "P", "Q", "R", "S", "T", "U", "V", "W", "X", "Y", "Z">>
LowerChars ==
  <<"a", "b", "c", "d", "e", "f", "g", "h", "i", "j", "k", "l", "m",
    "n", "o", "p", "q", "r", "s", "t", "u", "v", "w", "x", "y", "z">>

\* ILIKE compares without regard to case
LowerChar(c) ==
  IF \E i \in 1..26 : UpperChars[i] = c
  THEN LowerChars[CHOOSE i \in 1..26 : UpperChars[i] = c]
  ELSE c

Lower(s) == [i \in 1..Len(s) |-> LowerChar(s[i])]

\* text ILIKE '%query%', for a query without the wildcards % and _
Contains(text, query) ==
  \E i \in 0..(Len(text) - Len(query)) :
     SubSeq(Lower(text), i + 1, i + Len(query)) = Lower(query)

\* the search strings the reads are tried with: none, a status, a customer
\* name in another case, a date, and one that is in no row
Queries ==
  { <<>>, <<"p", "e", "n", "d", "i", "n", "g">>, <<"a", "N", "n">>,
    <<"-", "0", "2">>, <<"z", "z">> }

\* FROM invoices JOIN customers ON invoices.customer_id = customers.id
Joined(table) ==
  {[id |-> row.id, amount |-> row.amount, date |-> row.date,
    status |-> row.status, name |-> tables.customers[row.customer_id].name,
    email |-> tables.customers[row.customer_id].email,
    image_url |-> tables.customers[row.customer_id].image_url] :
     row \in {r \in table : r.customer_id \in DOMAIN tables.customers}}

\* the WHERE of fetchFilteredInvoices
Matches(row, query) ==
  \/ Contains(row.name, query)
  \/ Contains(row.email, query)
  \/ Contains(IntText(row.amount), query)
  \/ Contains(DateText(row.date), query)
  \/ Contains(StatusText(row.status), query)

\* a count whose WHERE leaves out the status
MatchesCountNoStatus(row, query) ==
  \/ Contains(row.name, query)
  \/ Contains(row.email, query)
  \/ Contains(IntText(row.amount), query)
  \/ Contains(DateText(row.date), query)

\* the WHERE of fetchInvoicesPages
MatchesCount(row, query) ==
  \/ Contains(row.name, query)
  \/ Contains(row.email, query)
  \/ Contains(IntText(row.amount), query)
  \/ Contains(DateText(row.date), query)
  \/ Contains(StatusText(row.status), query)

\* ORDER BY date DESC: every order of the rows in which no row comes before
\* one of a later date; rows of one date come in an order the store chooses
RECURSIVE DateDescOrders(_)
DateDescOrders(rows) ==
  IF rows = {} THEN {<<>>}
  ELSE LET latest == {r \in rows : \A o \in rows : o.date <= r.date}
       IN  UNION {{<<r>> \o rest : rest \in DateDescOrders(rows \ {r})} :
                    r \in latest}

Min(a, b) == IF a < b THEN a ELSE b

\* LIMIT limit OFFSET offset of the rows in order
Window(ordered, limit, offset) ==
  SubSeq(ordered, offset + 1, Min(offset + limit, Len(ordered)))

ITEMS_PER_PAGE == 6

\* the page strings the invoices page is asked for
PageParams ==
  { <<"1">>, <<"2">>, <<"3">>, <<"0">>, <<"-", "1">>, <<"a", "b", "c">>, <<>> }

\* Number(searchParams?.page) for each of them
PageNumbers == [s \in PageParams |-> ToNumber(s)]

\* const currentPage = Number(searchParams?.page) || 1: 0 and NaN become 1
currentPage(page) ==
  LET x == PageNumbers[page]
  IN  IF x.nan \/ (x.int = 0 /\ ~x.frac) THEN 1 ELSE IntOf(x)

\* an offset that starts at the page number
offsetFromPage(page) == page * ITEMS_PER_PAGE

\* const offset = (currentPage - 1) * ITEMS_PER_PAGE
offset(page) == (page - 1) * ITEMS_PER_PAGE

\* a ceiling that rounds down
ceilDown(n, d) == n \div d

\* Math.ceil(n / d) of a count n and d > 0
ceil(n, d) == IF n % d = 0 THEN n \div d ELSE (n \div d) + 1

\* a statement sent to the store and not answered yet
Stmt(name) == [stmt |-> name, status |-> "pending", rows |-> <<>>, n |-> 0]

Failed(q) == [q EXCEPT !.status = "failed"]

\* the revenue table and the users table, which this core only reads
Revenue == <<[month |-> "Jan", revenue |-> 2000], [month |-> "Feb", revenue |-> 1800]>>

Users ==
  {[id |-> "u1", name |-> "User", email |-> <<"u", "@", "x", ".", "i", "o">>,
    password |-> "$2b$10$hash"]}

\* the tables this core only reads, as they are when the application starts
InitialTables == [customers |-> CustomerRows, users |-> Users, revenue |-> Revenue]

\* the addresses getUser is asked for: one of a user and one of nobody
Emails == {<<"u", "@", "x", ".", "i", "o">>, <<"n", "@", "x", ".", "i", "o">>}

\* the place of a letter in the alphabet, without regard to case
Rank(c) ==
  IF \E i \in 1..26 : LowerChars[i] = LowerChar(c)
  THEN CHOOSE i \in 1..26 : LowerChars[i] = LowerChar(c)
  ELSE 0

\* text a sorts before text b
RECURSIVE TextBefore(_, _)
TextBefore(a, b) ==
  IF b = <<>> THEN FALSE
  ELSE IF a = <<>> THEN TRUE
  ELSE IF Rank(a[1]) # Rank(b[1]) THEN Rank(a[1]) < Rank(b[1])
  ELSE TextBefore(Tail(a), Tail(b))

\* ORDER BY name ASC of rows with different names
RECURSIVE NameAsc(_)
NameAsc(rows) ==
  IF rows = {} THEN <<>>
  ELSE LET first == CHOOSE r \in rows :
                      \A o \in rows : o = r \/ TextBefore(r.name, o.name)
       IN  <<first>> \o NameAsc(rows \ {first})

\* SUM(amount) of a set of invoices
RECURSIVE SumAmounts(_)
SumAmounts(rows) ==
  IF rows = {} THEN 0
  ELSE LET r == CHOOSE x \in rows : TRUE
       IN  r.amount + SumAmounts(rows \ {r})

\* a column value that may be NULL
NullValue == [null |-> TRUE, v |-> 0]
Value(v) == [null |-> FALSE, v |-> v]

\* a coalescing that lets NULL through
OrZeroKept(x) == x

\* value ?? '0'
OrZero(x) == IF x.null THEN Value(0) ELSE x

\* SUM(CASE WHEN status = s THEN amount ELSE 0 END) FROM invoices: NULL when
\* the table has no row
SumOfStatus(table, s) ==
  IF table = {} THEN NullValue
  ELSE Value(SumAmounts({r \in table : r.status = s}))

\* the rows of fetchFilteredCustomers: customers LEFT JOIN invoices, grouped
CustomerTotals(table, query) ==
  {[id |-> c, name |-> tables.customers[c].name, email |-> tables.customers[c].email,
    image_url |-> tables.customers[c].image_url,
    total_invoices |-> Cardinality({r \in table : r.customer_id = c}),
    total_pending |->
      SumAmounts({r \in table : r.customer_id = c /\ r.status = "pending"}),
    total_paid |->
      SumAmounts({r \in table : r.customer_id = c /\ r.status = "paid"})] :
     c \in {x \in DOMAIN tables.customers : \/ Contains(tables.customers[x].name, query)
                              \/ Contains(tables.customers[x].email, query)}}

\* the set as a sequence, for a set of at most one row
RowsOf(rows) == IF rows = {} THEN <<>> ELSE <<CHOOSE r \in rows : TRUE>>

\* the amounts in cents that the table can hold: those of the tables the
\* reads start on and those the forms lead to
CentsInStore ==
  {1500 * i : i \in 1..MaxRows}
    \cup {AmountNumbers[s].cents.int :
            s \in {a \in AmountInputs : storeAcceptsAmount(AmountNumbers[a].cents)}}

\* cents / 100 for each of them: [neg, m, e], the double (-)m * 2^e
Hundredths ==
  [c \in CentsInStore |-> DoubleOver([m |-> NatToBits(c), e |-> 0], 100)]

\* a read that returns the amount as it is stored
centsToDollarsKept(cents) ==
  [neg |-> cents < 0, m |-> NatToBits(IF cents < 0 THEN -cents ELSE cents),
   e |-> 0]

\* invoice.amount / 100
centsToDollars(cents) ==
  LET d == Hundredths[IF cents < 0 THEN -cents ELSE cents]
  IN  [neg |-> cents < 0, m |-> d.m, e |-> d.e]

\* the answers the store may give to the statement of fetchFilteredInvoices:
\* WHERE ... ORDER BY invoices.date DESC LIMIT 6 OFFSET offset
ListAnswers(table, query, page) ==
  {Window(o, ITEMS_PER_PAGE, offset(page)) :
     o \in DateDescOrders({r \in Joined(table) : Matches(r, query)})}

\* what the store may answer to a statement of the read in flight
AnswersOn(q, table) ==
  CASE q.stmt = "filtered" ->
         IF offset(rd.page) < 0
         THEN {Failed(q)}
         ELSE {[q EXCEPT !.status = "ok", !.rows = rows] :
                 rows \in ListAnswers(table, rd.query, rd.page)}
    [] q.stmt = "count" ->
         {[q EXCEPT !.status = "ok",
                    !.n = Cardinality({r \in Joined(table) :
                                         MatchesCount(r, rd.query)})]}
    [] q.stmt = "byId" ->
         {[q EXCEPT !.status = "ok",
                    !.rows = RowsOf({[id |-> r.id, customer_id |-> r.customer_id,
                                      amount |-> r.amount, status |-> r.status] :
                                       r \in {x \in table : x.id = rd.id}})]}
    [] q.stmt = "customers" ->
         {[q EXCEPT !.status = "ok",
                    !.rows = NameAsc({[id |-> c, name |-> tables.customers[c].name] :
                                        c \in DOMAIN tables.customers})]}
    [] q.stmt = "revenue" -> {[q EXCEPT !.status = "ok", !.rows = tables.revenue]}
    [] q.stmt = "latest" ->
         {[q EXCEPT !.status = "ok", !.rows = Window(o, 5, 0)] :
            o \in DateDescOrders({[amount |-> r.amount, name |-> r.name,
                                   image_url |-> r.image_url, email |-> r.email,
                                   id |-> r.id, date |-> r.date] :
                                    r \in Joined(table)})}
    [] q.stmt = "invoiceCount" ->
         {[q EXCEPT !.status = "ok", !.n = Cardinality(table)]}
    [] q.stmt = "customerCount" ->
         {[q EXCEPT !.status = "ok", !.n = Cardinality(DOMAIN tables.customers)]}
    [] q.stmt = "invoiceStatus" ->
         {[q EXCEPT !.status = "ok",
                    !.rows = <<[paid |-> SumOfStatus(table, "paid"),
                                pending |-> SumOfStatus(table, "pending")]>>]}
    [] q.stmt = "customerTotals" ->
         {[q EXCEPT !.status = "ok",
                    !.rows = NameAsc(CustomerTotals(table, rd.query))]}
    [] q.stmt = "user" ->
         {[q EXCEPT !.status = "ok",
                    !.rows = RowsOf({u \in tables.users : u.email = rd.query})]}
    [] OTHER -> {Failed(q)}

\* a list of invoices answered from what was cached before the mutation
AnswersCached(q) == AnswersOn(q, mut.before)

\* noStore(): no answer is cached, the store answers from the tables as they
\* are when the statement runs
Answers(q) == AnswersOn(q, invoices)

\* the store answers statement i of the read in flight, or fails it
StoreAnswer(i, up) ==
  /\ rd.pc = "awaiting"
  /\ i \in DOMAIN rd.qs
  /\ rd.qs[i].status = "pending"
  /\ \E answer \in (IF up THEN Answers(rd.qs[i]) ELSE {Failed(rd.qs[i])}) :
       rd' = [rd EXCEPT !.qs[i] = answer]
  /\ UNCHANGED <<req, invoices, nextId, today, mut, del, tables>>

\* a call of a read: the statements go to the store and the read awaits them
Call(op, query, page, id, stmts) ==
  /\ rd.pc = "idle"
  /\ rd' = [IdleRd EXCEPT !.pc = "awaiting", !.op = op, !.query = query,
                          !.page = page, !.id = id,
                          !.qs = [i \in 1..Len(stmts) |-> Stmt(stmts[i])]]
  /\ UNCHANGED <<req, invoices, nextId, today, mut, del, tables>>

\* fetchRevenue()
fetchRevenue == Call("fetchRevenue", <<>>, 0, 0, <<"revenue">>)

\* fetchLatestInvoices()
fetchLatestInvoices == Call("fetchLatestInvoices", <<>>, 0, 0, <<"latest">>)

\* fetchCardData(): the three statements are sent before the first await
fetchCardData ==
  Call("fetchCardData", <<>>, 0, 0,
       <<"invoiceCount", "customerCount", "invoiceStatus">>)

\* fetchFilteredInvoices(query, currentPage)
fetchFilteredInvoices(query, page) ==
  Call("fetchFilteredInvoices", query, page, 0, <<"filtered">>)

\* fetchInvoicesPages(query)
fetchInvoicesPages(query) == Call("fetchInvoicesPages", query, 0, 0, <<"count">>)

\* fetchInvoiceById(id)
fetchInvoiceById(id) == Call("fetchInvoiceById", <<>>, 0, id, <<"byId">>)

\* fetchCustomers()
fetchCustomers == Call("fetchCustomers", <<>>, 0, 0, <<"customers">>)

\* fetchFilteredCustomers(query)
fetchFilteredCustomers(query) ==
  Call("fetchFilteredCustomers", query, 0, 0, <<"customerTotals">>)

\* getUser(email)
getUser(email) == Call("getUser", email, 0, 0, <<"user">>)

\* the dashboard page: await fetchRevenue(), then await fetchLatestInvoices(),
\* then await fetchCardData(); the statement of the first goes out now
DashboardPage == Call("DashboardPage", <<>>, 0, 0, <<"revenue">>)

\* the statements the dashboard page sends in all
DashboardStmts ==
  <<"revenue", "latest", "invoiceCount", "customerCount", "invoiceStatus">>

\* the dashboard page goes on after an await: fetchLatestInvoices is called
\* when fetchRevenue has returned, fetchCardData when that has returned
Continue ==
  /\ rd.pc = "awaiting" /\ rd.op = "DashboardPage"
  /\ Len(rd.qs) < Len(DashboardStmts)
  /\ \A i \in DOMAIN rd.qs : rd.qs[i].status = "ok"
  /\ rd' = [rd EXCEPT
              !.qs = rd.qs \o [i \in 1..(IF Len(rd.qs) = 1 THEN 1 ELSE 3) |->
                                 Stmt(DashboardStmts[Len(rd.qs) + i])]]
  /\ UNCHANGED <<req, invoices, nextId, today, mut, del, tables>>

\* the edit page of invoice id:
\* await Promise.all([fetchInvoiceById(id), fetchCustomers()])
EditPage(id) == Call("EditPage", <<>>, 0, id, <<"byId", "customers">>)

\* the catch of fetchInvoiceById logs the error and throws nothing
swallows(q) == q.stmt = "byId"

\* the awaited promise is rejected: a statement failed and the catch around
\* it throws (Promise.all rejects with the first rejection)
Rejected ==
  \E i \in DOMAIN rd.qs : rd.qs[i].status = "failed" /\ ~swallows(rd.qs[i])

\* the awaited promise is fulfilled: every statement was answered, or failed
\* in a read that swallows the failure (and the dashboard page has no
\* further read to call)
Fulfilled ==
  /\ \A i \in DOMAIN rd.qs :
       \/ rd.qs[i].status = "ok"
       \/ rd.qs[i].status = "failed" /\ swallows(rd.qs[i])
  /\ rd.op = "DashboardPage" => Len(rd.qs) = Len(DashboardStmts)

\* what the catch of a read throws
Thrown ==
  CASE rd.op = "fetchRevenue" -> "Failed to fetch revenue data."
    [] rd.op = "fetchLatestInvoices" -> "Failed to fetch the latest invoices."
    [] rd.op = "fetchCardData" -> "Failed to card data."
    [] rd.op = "fetchFilteredInvoices" -> "Failed to fetch invoices."
    [] rd.op = "fetchInvoicesPages" -> "Failed to fetch total number of invoices."
    [] rd.op = "fetchCustomers" -> "Failed to fetch all customers."
    [] rd.op = "EditPage" -> "Failed to fetch all customers."
    [] rd.op = "fetchFilteredCustomers" -> "Failed to fetch customer table."
    [] rd.op = "getUser" -> "Failed to fetch user."
    [] rd.op = "DashboardPage" ->
         IF rd.qs[1].status = "failed" THEN "Failed to fetch revenue data."
         ELSE IF rd.qs[2].status = "failed"
         THEN "Failed to fetch the latest invoices."
         ELSE "Failed to card data."
    [] OTHER -> "none"

Undefined == [kind |-> "undefined", rows |-> <<>>, n |-> 0, customers |-> <<>>]

Rows(rows) == [kind |-> "rows", rows |-> rows, n |-> 0, customers |-> <<>>]

\* rows[0]
FirstRow(rows) ==
  IF rows = <<>> THEN Undefined
  ELSE [kind |-> "row", rows |-> <<rows[1]>>, n |-> 0, customers |-> <<>>]

\* a fetchInvoiceById that makes up a row when the statement found none
invoiceOfBlank(q) ==
  IF q.status # "ok" THEN Undefined
  ELSE IF q.rows = <<>>
  THEN FirstRow(<<[id |-> rd.id, customer_id |-> Null,
                   amount |-> centsToDollarsKept(0), status |-> Null]>>)
  ELSE FirstRow([i \in 1..Len(q.rows) |->
                   [q.rows[i] EXCEPT !.amount = centsToDollars(q.rows[i].amount)]])

\* what fetchInvoiceById returns from the answer to its statement: the rows
\* with amount / 100, then the first of them; nothing after the catch
invoiceOf(q) ==
  IF q.status # "ok" THEN Undefined
  ELSE FirstRow([i \in 1..Len(q.rows) |->
                   [q.rows[i] EXCEPT !.amount = centsToDollars(q.rows[i].amount)]])

\* what fetchCardData returns from the answers to its three statements:
\* Number(count ?? '0') twice and formatCurrency(sum ?? '0') twice
cardOf(invoiceCount, customerCount, invoiceStatus) ==
  FirstRow(<<[numberOfCustomers |-> OrZero(Value(customerCount.n)),
              numberOfInvoices |-> OrZero(Value(invoiceCount.n)),
              totalPaidInvoices |-> OrZero(invoiceStatus.rows[1].paid),
              totalPendingInvoices |-> OrZero(invoiceStatus.rows[1].pending)]>>)

\* what a read returns from the answers
Returned ==
  CASE rd.op \in {"fetchRevenue", "fetchLatestInvoices", "fetchFilteredInvoices",
                  "fetchCustomers", "fetchFilteredCustomers"} ->
         Rows(rd.qs[1].rows)
    [] rd.op = "fetchCardData" -> cardOf(rd.qs[1], rd.qs[2], rd.qs[3])
    [] rd.op = "fetchInvoicesPages" ->
         [kind |-> "number", rows |-> <<>>,
          n |-> ceil(rd.qs[1].n, ITEMS_PER_PAGE), customers |-> <<>>]
    [] rd.op = "fetchInvoiceById" -> invoiceOf(rd.qs[1])
    [] rd.op = "getUser" -> FirstRow(rd.qs[1].rows)
    [] rd.op = "EditPage" ->
         [invoiceOf(rd.qs[1]) EXCEPT !.customers = rd.qs[2].rows]
    [] rd.op = "DashboardPage" ->
         FirstRow(<<[revenue |-> rd.qs[1].rows, latestInvoices |-> rd.qs[2].rows,
                     cards |-> cardOf(rd.qs[3], rd.qs[4], rd.qs[5]).rows[1]]>>)
    [] OTHER -> NoResult

\* the await resumes: the read returns, or its catch throws; the edit page
\* goes on to if (!invoice) notFound(), or to the form
Resume ==
  /\ rd.pc = "awaiting"
  /\ \/ /\ Rejected
        /\ rd' = [rd EXCEPT !.pc = "threw", !.error = Thrown]
     \/ /\ Fulfilled
        /\ rd' = [rd EXCEPT
                    !.pc = IF rd.op = "EditPage" /\ Returned.kind = "undefined"
                           THEN "notFound" ELSE "returned",
                    !.result = Returned]
  /\ UNCHANGED <<req, invoices, nextId, today, mut, del, tables>>

\* the read is over: its result or error goes to the caller
SettleRead ==
  /\ rd.pc \in {"returned", "threw", "notFound"}
  /\ rd' = IdleRd
  /\ UNCHANGED <<req, invoices, nextId, today, mut, del, tables>>

Init ==
  /\ req = [r \in Reqs |-> IdleReq]
  /\ invoices = {}
  /\ nextId = 1
  /\ today = 1
  /\ mut = IdleMut
  /\ rd = IdleRd
  /\ del = IdleDel
  /\ tables = InitialTables

NextGate ==
  \E r \in Reqs :
    \/ \E auth \in Auths, p \in Paths : Arrive(r, auth, p)
    \/ Middleware(r)
    \/ FollowRedirect(r)
    \/ StartHandler(r)
    \/ HandlerRead(r)
    \/ Respond(r)

SpecGate == Init /\ [][NextGate]_vars

NextMut ==
  \/ \E form \in Forms : createInvoice(form)
  \/ \E id \in InvoiceIds, form \in Forms : updateInvoice(id, form)
  \/ \E id \in InvoiceIds : deleteInvoice(id)
  \/ \E up \in BOOLEAN : StoreWrite(up)
  \/ Revalidate
  \/ Redirect
  \/ Return
  \/ Settle
  \/ Tick

SpecMut == Init /\ [][NextMut]_vars


\* the reads start on a table of invoices that is already there
InitRead ==
  /\ req = [r \in Reqs |-> IdleReq]
  /\ invoices \in SeedTables
  /\ nextId = MaxRows + 1
  /\ today = 1
  /\ mut = IdleMut
  /\ rd = IdleRd
  /\ del = IdleDel
  /\ tables = InitialTables

NextRead ==
  \/ fetchRevenue
  \/ fetchLatestInvoices
  \/ fetchCardData
  \/ \E query \in Queries, page \in PageParams :
       fetchFilteredInvoices(query, currentPage(page))
  \/ \E query \in Queries : fetchInvoicesPages(query)
  \/ \E id \in Ids(invoices) \cup {nextId} : fetchInvoiceById(id)
  \/ fetchCustomers
  \/ \E query \in Queries : fetchFilteredCustomers(query)
  \/ \E email \in Emails : getUser(email)
  \/ \E id \in Ids(invoices) \cup {nextId} : EditPage(id)
  \/ DashboardPage
  \/ Continue
  \/ \E i \in 1..Len(DashboardStmts), up \in BOOLEAN : StoreAnswer(i, up)
  \/ Resume
  \/ SettleRead

SpecRead == InitRead /\ [][NextRead]_vars

Next == NextGate \/ NextMut \/ NextRead

Spec == Init /\ [][Next]_vars

\* createInvoice and fetchInvoiceById on a table that starts empty
NextRoundTrip ==
  \/ \E form \in Forms : createInvoice(form)
  \/ \E up \in BOOLEAN : StoreWrite(up)
  \/ Revalidate
  \/ Redirect
  \/ Settle
  \/ \E id \in Ids(invoices) \cup {nextId} : fetchInvoiceById(id)
  \/ \E up \in BOOLEAN : StoreAnswer(1, up)
  \/ Resume
  \/ SettleRead

SpecRoundTrip == Init /\ [][NextRoundTrip]_vars

\* an identifier that is a string and the id of no customer
UnknownCustomer == "c9"

\* a few forms that pass the parse: the id of a customer or of no customer,
\* an amount whose product with 100 is an integer or is not, a status
FewForms ==
  [customerId : {"c2", UnknownCustomer},
   amount : {<<"4", "5", ".", "0", "0">>, <<"1", "9", ".", "9", "9">>},
   status : {"paid"}]

\* two requests at work on a table of two invoices: one submits edit forms,
\* the other deletes
InitPair ==
  /\ req = [r \in Reqs |-> IdleReq]
  /\ invoices = SeedTable(2, 2)
  /\ nextId = 3
  /\ today = 1
  /\ mut = IdleMut
  /\ rd = IdleRd
  /\ del = IdleDel
  /\ tables = InitialTables

NextPair ==
  \/ \E id \in Ids(invoices) \cup {nextId}, form \in FewForms :
       updateInvoice(id, form)
  \/ \E up \in BOOLEAN : StoreWrite(up)
  \/ Revalidate
  \/ Redirect
  \/ Settle
  \/ \E id \in Ids(invoices) \cup {nextId} : deleteConcurrently(id)
  \/ \E up \in BOOLEAN : StoreDelete(up)
  \/ RevalidateDelete
  \/ ReturnDelete
  \/ SettleDelete

SpecPair == InitPair /\ [][NextPair]_vars

(***************************************************************************)
(* The server actions and the reads of the pages together, from the empty  *)
(* table: what a page reads after a form was submitted.                    *)
(***************************************************************************)
NextFresh ==
  \/ \E form \in FewForms : createInvoice(form)
  \/ \E id \in InvoiceIds, form \in FewForms : updateInvoice(id, form)
  \/ \E id \in InvoiceIds : deleteInvoice(id)
  \/ \E up \in BOOLEAN : StoreWrite(up)
  \/ Revalidate
  \/ Redirect
  \/ Return
  \/ Settle
  \/ NextRead

SpecFresh == Init /\ [][NextFresh]_vars

(***************************************************************************)
(* The claims about the authorization gate, under SpecGate.                *)
(***************************************************************************)
\* the gate has decided the request for its present path
Decided(r) == req[r].pc \in {"routed", "handling"} /\ req[r].decision.kind # "none"

SessionPresent(r) == req[r].auth = UserAuth

UnderProtectedPrefix(path) == StartsWith(path, DashboardPath)

IsPublicPage(path) == path = LoginPath

\* C1: on a path under /dashboard the gate returns Allow with a session and
\* DenyRedirect(login) without one.
C1_ProtectedPathDecision ==
  \A r \in Reqs :
    Decided(r) /\ UnderProtectedPrefix(req[r].path) =>
      req[r].decision = IF SessionPresent(r) THEN Allow ELSE DenyRedirect(LoginPath)

C1_Witness ==
  /\ Decided("r1") /\ req["r1"].path = InvoicesPath /\ ~SessionPresent("r1")
  /\ req["r1"].decision = DenyRedirect(LoginPath)
  /\ Decided("r2") /\ req["r2"].path = DashboardPath /\ SessionPresent("r2")
  /\ req["r2"].decision = Allow

\* C2: on the login page the gate returns RedirectAway(/dashboard) with a
\* session and Allow without one.
C2_PublicPageDecision ==
  \A r \in Reqs :
    Decided(r) /\ IsPublicPage(req[r].path) =>
      req[r].decision = IF SessionPresent(r) THEN RedirectAway(DashboardPath) ELSE Allow

C2_Witness ==
  /\ Decided("r1") /\ req["r1"].path = LoginPath /\ SessionPresent("r1")
  /\ req["r1"].decision = RedirectAway(DashboardPath)
  /\ Decided("r2") /\ req["r2"].path = LoginPath /\ ~SessionPresent("r2")
  /\ req["r2"].decision = Allow

\* C3 as stated: on a path that is neither under /dashboard nor the login
\* page the gate returns Allow, with or without a session.
C3_OtherPathAlwaysAllowed ==
  \A r \in Reqs :
    Decided(r) /\ ~UnderProtectedPrefix(req[r].path) /\ ~IsPublicPage(req[r].path) =>
      req[r].decision = Allow

\* C3 as amended: on a path that is neither under /dashboard nor the login
\* page the gate returns Allow without a session and RedirectAway(/dashboard)
\* with one.
C3_OtherPathDecision ==
  \A r \in Reqs :
    Decided(r) /\ ~UnderProtectedPrefix(req[r].path) /\ ~IsPublicPage(req[r].path) =>
      req[r].decision = IF SessionPresent(r) THEN RedirectAway(DashboardPath) ELSE Allow

C3_Witness ==
  /\ Decided("r1") /\ req["r1"].path = AboutPath /\ SessionPresent("r1")
  /\ req["r1"].decision = RedirectAway(DashboardPath)
  /\ Decided("r2") /\ req["r2"].path = RootPath /\ ~SessionPresent("r2")
  /\ req["r2"].decision = Allow

\* C4: the handler of a path under /dashboard runs, and reads the store, only
\* for a request the gate has already allowed.
C4_GateBeforeHandler ==
  \A r \in Reqs :
    UnderProtectedPrefix(req[r].path) /\ (req[r].pc = "handling" \/ req[r].reads > 0) =>
      req[r].decision = Allow

C4_Witness ==
  /\ req["r1"].pc = "handling" /\ req["r1"].path = InvoicesPath
  /\ req["r1"].reads = MaxReads /\ req["r1"].decision = Allow

(***************************************************************************)
(* The claims about the mutation pipeline, under SpecMut.                  *)
(***************************************************************************)
IsPrefix(s, t) == Len(s) <= Len(t) /\ SubSeq(t, 1, Len(s)) = s

PipelineOrder == <<"write", "revalidatePath", "redirect">>

\* what the amount field spells, read as a decimal
AmountNonNumeric(form) == ~ParseDecimal(form.amount).ok

AmountNonPositive(form) ==
  LET p == ParseDecimal(form.amount) IN p.ok /\ (p.neg \/ p.n = 0)

AmountPositive(form) == ~AmountNonNumeric(form) /\ ~AmountNonPositive(form)

\* round(input_amount * 100), for a positive amount
RoundedCents(form) ==
  LET p == ParseDecimal(form.amount)
  IN  (2 * p.n * 100 + Pow10(p.k)) \div (2 * Pow10(p.k))

\* the fields of the form that the schema refuses
InvalidFields(form) ==
  (IF form.customerId = Null THEN {"customerId"} ELSE {})
    \cup (IF AmountNonNumeric(form) THEN {"amount"} ELSE {})
    \cup (IF form.status \notin {"pending", "paid"} THEN {"status"} ELSE {})

\* valid input as the specification has it
ValidInput(form) ==
  form.customerId # Null /\ AmountPositive(form) /\ form.status \in {"pending", "paid"}

FormAction == mut.op \in {"create", "update"}

\* C5: createInvoice and updateInvoice reject an amount that is <= 0 or not a
\* number with a field error on amount, and write nothing.
C5_BadAmountRejected ==
  FormAction /\ (AmountNonPositive(mut.form) \/ AmountNonNumeric(mut.form)) =>
    /\ mut.pc = "rejected"
    /\ "amount" \in mut.issues
    /\ mut.steps = <<>>
    /\ invoices = mut.before

\* C6: when the validation of a form fails, the action ends rejected with
\* one issue for each invalid field and no other, the table is as it was, and
\* neither the revalidation nor the redirect has happened.
C6_ValidationFailureRejects ==
  FormAction /\ (mut.pc = "rejected" \/ InvalidFields(mut.form) # {}) =>
    /\ mut.pc = "rejected"
    /\ mut.error = "ZodError"
    /\ mut.issues = InvalidFields(mut.form)
    /\ mut.issues # {}
    /\ mut.steps = <<>>
    /\ invoices = mut.before

C6_Witness ==
  /\ mut.op = "update" /\ mut.pc = "rejected"
  /\ mut.issues = {"customerId", "amount", "status"}
  /\ invoices # {}

\* C7: with valid input and the store up, createInvoice persists exactly one
\* new row, with amount round(input_amount * 100), the status and customer of
\* the input, and the date of the call.
C7_CreatePersistsRoundedCents ==
  /\ mut.op = "create"
  /\ ValidInput(mut.form)
  /\ mut.pc \in {"persisted", "invalidated"} \cup Ended
  /\ mut.error # "StoreDown"
  => \E row \in invoices :
       /\ row \notin mut.before
       /\ invoices = mut.before \cup {row}
       /\ row.amount = RoundedCents(mut.form)
       /\ row.status = mut.form.status
       /\ row.customer_id = mut.form.customerId
       /\ row.date = mut.day

\* C8: the effects of a mutation come in the order write, revalidation,
\* redirect, and nothing of the run follows the redirect.
C8_PipelineOrder ==
  [][/\ IsPrefix(mut'.steps, PipelineOrder)
     /\ mut'.steps # mut.steps /\ mut'.steps # <<>> =>
          mut'.steps = Append(mut.steps, PipelineOrder[Len(mut'.steps)])
     /\ mut.pc = "redirected" /\ mut' # mut => mut' = IdleMut]_vars

C8_Witness == mut.pc = "redirected" /\ mut.steps = PipelineOrder

\* C9: when the write of a mutation fails, neither the revalidation nor the
\* redirect is performed.
C9_FailedWriteStops ==
  mut.error \in {"StoreDown", "StoreSyntax"} =>
    /\ mut.pc = "failed"
    /\ mut.steps = <<>>
    /\ invoices = mut.before

C9_Witness ==
  mut.op = "update" /\ mut.pc = "failed" /\ mut.error = "StoreDown" /\ invoices # {}

\* C10: updateInvoice with valid fields and an id no row has, the store up,
\* leaves the table as it was, raises no error, and revalidates and redirects.
C10_UpdateOfMissingId ==
  /\ mut.op = "update"
  /\ ValidInput(mut.form)
  /\ mut.id \notin Ids(mut.before)
  /\ mut.error # "StoreDown"
  => /\ invoices = mut.before
     /\ mut.error = "none"
     /\ mut.pc \in Ended => mut.steps = PipelineOrder

\* a deleteInvoice whose statement the store has run
Deleted == mut.op = "delete" /\ mut.pc \in {"persisted", "invalidated", "done"}

\* C11: deleteInvoice is idempotent. A run of deleteInvoice(id) that the store
\* serves raises no error and leaves the table it found without the row of id:
\* the row is gone when it was there, and the table is as it was when it was
\* not, so that a second call leaves what the first one left.
C11_DeleteIdempotent ==
  /\ Deleted =>
        /\ mut.error = "none"
        /\ invoices = {row \in mut.before : row.id # mut.id}
        /\ mut.id \notin Ids(invoices)
        /\ mut.id \notin Ids(mut.before) => invoices = mut.before
  /\ mut.op = "delete" /\ mut.error # "none" => mut.error = "StoreDown"

\* the second deleteInvoice of an id has returned: the row was created, a
\* first call removed it, this call found the table without it
C11_Witness ==
  /\ mut.op = "delete" /\ mut.pc = "done" /\ mut.error = "none"
  /\ nextId > mut.id
  /\ mut.id \notin Ids(mut.before)
  /\ invoices = mut.before

\* C12: a deleteInvoice that succeeds ends with the cache invalidation and
\* never redirects; a createInvoice or updateInvoice that succeeds ends with
\* the redirect, after the invalidation.
C12_DeleteEndsWithoutRedirect ==
  /\ mut.op = "delete" =>
        /\ mut.pc # "redirected"
        /\ \A i \in DOMAIN mut.steps : mut.steps[i] # "redirect"
        /\ mut.pc = "done" => mut.steps = <<"write", "revalidatePath">>
  /\ mut.op \in {"create", "update"} =>
        /\ mut.pc # "done"
        /\ mut.pc = "redirected" =>
              mut.steps = <<"write", "revalidatePath", "redirect">>
        /\ mut.pc \in Ended /\ mut.error = "none" => mut.pc = "redirected"

\* a deleteInvoice has ended
C12_Witness ==
  /\ mut.op = "delete" /\ mut.pc = "done"
  /\ mut.steps = <<"write", "revalidatePath">>

(***************************************************************************)
(* The claims about the reads, under SpecRead.                             *)
(***************************************************************************)
\* the rows that match the query of the read in flight
Matching == {r \in Joined(invoices) : Matches(r, rd.query)}

\* C13: fetchFilteredInvoices never sends a negative offset, and for a page
\* number below 1 it returns what it returns for page 1: rows from the top
\* of the matching invoices by date descending.
C13_PageBelowOneIsPageOne ==
  rd.op = "fetchFilteredInvoices" =>
    /\ offset(rd.page) >= 0
    /\ rd.page < 1 /\ rd.pc = "returned" =>
         rd.result.rows \in {Window(o, ITEMS_PER_PAGE, 0) :
                               o \in DateDescOrders(Matching)}

\* rows are the rows at positions first+1 .. first+Len(rows) of an order by
\* date descending of the set all: they are different rows of all, no row
\* comes before one of a later date, and the row at position p has at most
\* p - 1 rows of a later date and at least p rows of its date or a later one
AtPositions(rows, all, first) ==
  /\ \A j \in DOMAIN rows : rows[j] \in all
  /\ \A j, k \in DOMAIN rows : j < k =>
       rows[j] # rows[k] /\ rows[j].date >= rows[k].date
  /\ \A j \in DOMAIN rows :
       /\ Cardinality({m \in all : m.date > rows[j].date}) <= first + j - 1
       /\ Cardinality({m \in all : m.date >= rows[j].date}) >= first + j

\* C14: for every query and page >= 1, fetchFilteredInvoices returns at most
\* 6 rows, the rows at positions (page-1)*6 .. (page-1)*6+5 of the matching
\* invoices ordered by date descending, as many of them as there are.
C14_PageIsWindow ==
  rd.op = "fetchFilteredInvoices" /\ rd.page >= 1 /\ rd.pc = "returned" =>
    LET first == (rd.page - 1) * 6
        left == Cardinality(Matching) - first
    IN  /\ Len(rd.result.rows) <= 6
        /\ Len(rd.result.rows) = (IF left < 0 THEN 0 ELSE IF left > 6 THEN 6 ELSE left)
        /\ AtPositions(rd.result.rows, Matching, first)

\* page 2 of the search for "pending" with 8 matching rows: the last 2
C14_Witness ==
  /\ rd.op = "fetchFilteredInvoices" /\ rd.pc = "returned"
  /\ rd.query = <<"p", "e", "n", "d", "i", "n", "g">>
  /\ rd.page = 2
  /\ Cardinality(Matching) = 8
  /\ Len(rd.result.rows) = 2

\* C15: for every query and table with n rows matching the filter of
\* fetchFilteredInvoices, fetchInvoicesPages returns the p with p * 6 >= n
\* and (p - 1) * 6 < n, the ceiling of n / 6.
C15_PageCountIsCeiling ==
  rd.op = "fetchInvoicesPages" /\ rd.pc = "returned" =>
    LET n == Cardinality(Matching)
        p == rd.result.n
    IN  /\ rd.result.kind = "number"
        /\ p * 6 >= n
        /\ (p - 1) * 6 < n

\* 7 rows match and the count of pages is 2
C15_Witness ==
  /\ rd.op = "fetchInvoicesPages" /\ rd.pc = "returned"
  /\ Cardinality(Matching) = 7
  /\ rd.result.n = 2

\* the read in flight is over
ReadOver == rd.pc \in {"returned", "threw", "notFound"}

\* a statement of the read in flight failed
SomeFailed == \E i \in DOMAIN rd.qs : rd.qs[i].status = "failed"

\* C16: fetchInvoiceById of an id that no row has, answered by a healthy
\* store, returns undefined, its not-found result, and throws nothing; the
\* edit page then calls notFound().
C16_MissingIdIsNotFound ==
  /\ rd.op = "fetchInvoiceById" /\ ReadOver /\ rd.qs[1].status = "ok"
       /\ rd.id \notin Ids(invoices) =>
        rd.pc = "returned" /\ rd.result = Undefined /\ rd.error = "none"
  /\ rd.op = "fetchInvoiceById" /\ ReadOver /\ rd.qs[1].status = "ok"
       /\ rd.id \in Ids(invoices) =>
        rd.pc = "returned" /\ rd.result.kind = "row"
  /\ rd.op = "EditPage" /\ ReadOver /\ Fulfilled /\ rd.qs[1].status = "ok"
       /\ rd.id \notin Ids(invoices) =>
        rd.pc = "notFound" /\ rd.error = "none"

\* fetchInvoiceById has returned for an id that is in no row of a table
\* that has rows
C16_Witness ==
  /\ rd.op = "fetchInvoiceById" /\ rd.pc = "returned"
  /\ rd.qs[1].status = "ok"
  /\ invoices # {}
  /\ rd.id \notin Ids(invoices)
  /\ rd.result = Undefined

\* C17: what fetchInvoiceById gives its caller when the statement failed is
\* never what it gives when no row has the id (a returned undefined).
C17_FailureIsNotNotFound ==
  rd.op = "fetchInvoiceById" /\ ReadOver /\ rd.qs[1].status = "failed" =>
    ~(rd.pc = "returned" /\ rd.result = Undefined)

\* the reads of the data-access layer
DataReads ==
  {"fetchRevenue", "fetchLatestInvoices", "fetchCardData",
   "fetchFilteredInvoices", "fetchInvoicesPages", "fetchInvoiceById",
   "fetchCustomers", "fetchFilteredCustomers", "getUser"}

\* C18: a read of the data-access layer one of whose statements failed ends
\* by throwing; it never returns.
C18_FailedReadThrows ==
  rd.op \in DataReads /\ ReadOver /\ SomeFailed =>
    rd.pc = "threw" /\ rd.error # "none"

\* C19: a composite one of whose reads failed fails as a whole: fetchCardData
\* throws when one of its three statements failed, and the edit page throws
\* when the invoice read or the customer read failed; neither returns, and
\* the edit page renders nothing.
C19_CompositeFails ==
  rd.op \in {"fetchCardData", "EditPage"} /\ ReadOver /\ SomeFailed =>
    rd.pc = "threw" /\ rd.error # "none"

(***************************************************************************)
(* The claim about writing and reading back, under SpecRoundTrip.          *)
(***************************************************************************)
\* Number(amount) of the amounts the forms hold that are numbers, as the
\* double it is: [neg, m, e]
AmountDoubles ==
  [s \in {a \in AmountInputs : amountValid(a)} |->
     LET p == ParseDecimal(s)
         d == DecimalToDouble(p.n, p.k)
     IN  [neg |-> p.neg /\ p.n # 0, m |-> d.m, e |-> d.e]]

\* fetchInvoiceById has returned the invoice that the createInvoice in
\* flight has written
ReadBack ==
  /\ mut.op = "create" /\ mut.pc \in {"persisted", "invalidated", "redirected"}
  /\ rd.op = "fetchInvoiceById" /\ rd.pc = "returned"
  /\ rd.result.kind = "row"
  /\ rd.result.rows[1].id = nextId - 1

\* C20: fetchInvoiceById of an invoice that createInvoice has created from
\* the dollar amount d returns the amount d: the division by 100 of the read
\* undoes the multiplication by 100 of the write.
C20_RoundTrip ==
  ReadBack => rd.result.rows[1].amount = AmountDoubles[mut.form.amount]

\* created with amount "45.00" and read back as 45
C20_Witness ==
  /\ ReadBack
  /\ mut.form.amount = <<"4", "5", ".", "0", "0">>
  /\ DoubleToNum(FALSE, rd.result.rows[1].amount) = Num(FALSE, 45, FALSE)

(***************************************************************************)
(* The claims about the rows the mutations leave in the store.             *)
(***************************************************************************)
\* C21: after any sequence of createInvoice, updateInvoice and deleteInvoice
\* calls, every row of the invoices table has an amount that is a
\* non-negative integer of cents and a status that is pending or paid.
C21_RowsWellFormed ==
  \A row \in invoices :
     /\ row.amount \in Nat
     /\ row.status \in {"pending", "paid"}

\* the store runs the UPDATE of an updateInvoice in this step
UpdateWrites ==
  /\ mut.op = "update" /\ mut.pc = "awaitSql"
  /\ mut'.pc = "persisted"

\* C23: the write of a successful updateInvoice(id, fields) replaces
\* customer_id, amount and status of the row of that id in one step, by the
\* customer, the cents and the status of the form, and leaves its id and its
\* date as they were; every other row is as it was.
C23_UpdateFrame ==
  [][UpdateWrites =>
       /\ Ids(invoices') = Ids(invoices)
       /\ \A row \in invoices : row.id # mut.id => row \in invoices'
       /\ \A row \in invoices' : row.id # mut.id => row \in invoices
       /\ \A old \in invoices, new \in invoices' :
            old.id = mut.id /\ new.id = mut.id =>
              /\ new.date = old.date
              /\ new.customer_id = mut.form.customerId
              /\ new.amount = IntOf(AmountNumbers[mut.form.amount].cents)
              /\ new.status = mut.form.status]_vars

\* an update has changed all three fields of one of two rows
C23_Witness ==
  /\ mut.op = "update" /\ mut.pc = "redirected"
  /\ Cardinality(invoices) = 2
  /\ \E old \in mut.before, new \in invoices :
       /\ old.id = mut.id /\ new.id = mut.id
       /\ new.customer_id # old.customer_id
       /\ new.amount # old.amount
       /\ new.status # old.status
       /\ new.date = old.date
  /\ \E row \in invoices : row.id # mut.id /\ row \in mut.before

\* an updateInvoice and a deleteInvoice of the same id are both over, and the
\* store was up for both statements
RaceOver ==
  /\ mut.op = "update" /\ mut.pc \in Ended /\ mut.error # "StoreDown"
  /\ del.pc \in {"done", "failed"} /\ del.error # "StoreDown"
  /\ mut.id = del.id

\* the UPDATE of the updateInvoice in flight, and the DELETE, run on a table
UpdateOn(table) ==
  {IF row.id = mut.id
   THEN [row EXCEPT !.customer_id = mut.form.customerId,
                    !.amount = IntOf(AmountNumbers[mut.form.amount].cents),
                    !.status = mut.form.status]
   ELSE row : row \in table}

DeleteOn(table) == {row \in table : row.id # del.id}

\* the table is what the two statements leave when run one after the other,
\* in one of the two orders, on the table one of the calls found
Serialised ==
  \E found \in {mut.before, del.before} :
     invoices \in {DeleteOn(UpdateOn(found)), UpdateOn(DeleteOn(found))}

\* C24: when updateInvoice and deleteInvoice of the same id run at the same
\* time, neither raises an error and the table they leave is the one that
\* one of the two serial orders of the two statements leaves.
C24_UpdateDeleteRace ==
  RaceOver => mut.error = "none" /\ del.error = "none" /\ Serialised

\* the requests that need several independent reads, and how many
Composites == {"fetchCardData", "EditPage", "DashboardPage"}

ReadsNeeded ==
  CASE rd.op = "fetchCardData" -> 3
    [] rd.op = "EditPage" -> 2
    [] OTHER -> Len(DashboardStmts)

\* C25: a request that needs several independent reads has sent all of them
\* when it awaits the first, and is over only when all of them are settled.
C25_IssuedTogetherSettledTogether ==
  rd.op \in Composites =>
    /\ rd.pc = "awaiting" => Len(rd.qs) = ReadsNeeded
    /\ ReadOver => \A i \in DOMAIN rd.qs : rd.qs[i].status # "pending"

\* C26: fetchCardData returns no null in any field, and zero for a total
\* whose aggregate was NULL, as the two sums over an empty invoices table are.
C26_NoNullInCardData ==
  rd.op = "fetchCardData" /\ rd.pc = "returned" =>
    LET card == rd.result.rows[1]
    IN  /\ ~card.numberOfCustomers.null
        /\ ~card.numberOfInvoices.null
        /\ ~card.totalPaidInvoices.null
        /\ ~card.totalPendingInvoices.null
        /\ rd.qs[3].rows[1].paid.null => card.totalPaidInvoices.v = 0
        /\ rd.qs[3].rows[1].pending.null => card.totalPendingInvoices.v = 0

\* fetchCardData has returned from an empty invoices table, whose sums are
\* NULL
C26_Witness ==
  /\ rd.op = "fetchCardData" /\ rd.pc = "returned"
  /\ invoices = {}
  /\ rd.qs[3].rows[1].paid.null /\ rd.qs[3].rows[1].pending.null
  /\ rd.result.rows[1].totalPaidInvoices = Value(0)
  /\ rd.result.rows[1].numberOfInvoices = Value(0)

\* the rows of a list answer that are rows of the join of the table
FromTable(rows, table) ==
  \A i \in DOMAIN rows : \E r \in Joined(table) :
     /\ rows[i].id = r.id /\ rows[i].amount = r.amount
     /\ rows[i].status = r.status /\ rows[i].date = r.date
     /\ rows[i].name = r.name /\ rows[i].email = r.email

\* a server action has invalidated the cached path and the store answers the
\* statement of a list read
ListAnsweredAfterInvalidation ==
  /\ mut.pc \in {"invalidated", "redirected", "done"}
  /\ rd.op = "fetchFilteredInvoices" /\ rd.pc = "awaiting"
  /\ rd.qs[1].status = "pending"
  /\ rd'.qs[1].status = "ok"

\* C27: once a server action has passed revalidatePath, a read of the list
\* of invoices is answered from the table as it is now, the effect of the
\* action included: every row returned is a row of the table, a deleted
\* invoice is not among them, an updated one carries the new fields, and a
\* created one that matches the search is on page 1.
C27_ListReadSeesMutation ==
  [][ListAnsweredAfterInvalidation =>
       LET rows == rd'.qs[1].rows
           mine == {i \in DOMAIN rows :
                      rows[i].id = IF mut.op = "create" THEN nextId - 1 ELSE mut.id}
       IN  /\ FromTable(rows, invoices)
           /\ mut.op = "delete" => mine = {}
           /\ mut.op \in {"create", "update"} =>
                \A i \in mine : /\ rows[i].amount = IntOf(mut.data.amount)
                                /\ rows[i].status = mut.data.status
           /\ /\ mut.op = "create"
              /\ rd.query = <<>> /\ rd.page = 1
              /\ mut.data.customerId \in DOMAIN tables.customers
              => mine # {}]_vars

\* a list read called after createInvoice was redirected has returned the
\* invoice created, which the table before the action did not hold
C27_Witness ==
  /\ mut.op = "create" /\ mut.pc = "redirected"
  /\ mut.before = {}
  /\ rd.op = "fetchFilteredInvoices" /\ rd.pc = "returned"
  /\ Len(rd.result.rows) = 1
  /\ rd.result.rows[1].id = 1
  /\ rd.result.rows[1].amount = 4500

\* C22: every row of invoices names, in customer_id, a row of customers.
C22_CustomerExists ==
  \A row \in invoices : row.customer_id \in DOMAIN tables.customers

\* C28: no step changes the tables customers, users and revenue, and a step
\* of a read leaves the table invoices as it is.
C28_ReadOnlyTables ==
  [][/\ tables' = tables
     /\ rd' # rd => invoices' = invoices]_vars

\* a read has returned after a server action wrote a row: the three tables
\* are as they were seeded and the row written is in place
C28_Witness ==
  /\ tables = InitialTables
  /\ mut.pc = "redirected" /\ mut.op = "create"
  /\ invoices # {}
  /\ rd.op = "fetchCardData" /\ rd.pc = "returned"
  /\ rd.result.rows[1].numberOfInvoices = Value(1)

\* the dates of the matching invoices order them totally
TotallyOrdered == \A a, b \in Matching : a # b => a.date # b.date

\* page p of the list of the search in flight, on the table as it is
PageOf(p) == CHOOSE rows \in ListAnswers(invoices, rd.query, p) : TRUE

\* C29: on a table whose matching invoices are totally ordered, the pages
\* 1 .. fetchInvoicesPages(query) of fetchFilteredInvoices partition the
\* matching invoices: each is on one page, once; each of these pages has a
\* row; each page after them has none.
C29_PagesPartition ==
  rd.op = "fetchInvoicesPages" /\ rd.pc = "returned" /\ TotallyOrdered =>
    LET last == rd.result.n
    IN  /\ \A m \in Matching :
             Cardinality({pi \in (1..last) \X (1..ITEMS_PER_PAGE) :
                            /\ pi[2] <= Len(PageOf(pi[1]))
                            /\ PageOf(pi[1])[pi[2]] = m}) = 1
        /\ \A p \in 1..last : PageOf(p) # <<>>
        /\ \A p \in (last + 1)..(last + 2) : PageOf(p) = <<>>

\* 8 invoices of 8 dates, all listed by the empty search: 2 pages, of 6 rows
\* and of 2, and no row on page 3
C29_Witness ==
  /\ rd.op = "fetchInvoicesPages" /\ rd.pc = "returned"
  /\ rd.query = <<>>
  /\ TotallyOrdered
  /\ Cardinality(Matching) = 8
  /\ rd.result.n = 2
  /\ Len(PageOf(1)) = 6 /\ Len(PageOf(2)) = 2 /\ PageOf(3) = <<>>

\* C30: the gate produces no redirect loop: whatever the session and the
\* path, a request that follows the gate's redirects with its session is
\* allowed at the first place it is sent to, so it follows at most one.
C30_NoRedirectLoop ==
  \A r \in Reqs :
    /\ req[r].hops <= 1
    /\ req[r].pc = "routed" /\ req[r].hops = 1 => req[r].decision = Allow
    /\ /\ req[r].pc = "routed" /\ req[r].hops = 0
       /\ req[r].decision.kind \in {"DenyRedirect", "RedirectAway"}
       => Gate(req[r].auth, req[r].decision.to) = Allow

\* one request without a session was sent to the login page and is allowed
\* there; one with a session was sent to the dashboard and is allowed there
C30_Witness ==
  /\ req["r1"].pc = "routed" /\ req["r1"].hops = 1
  /\ ~isLoggedIn(req["r1"].auth) /\ req["r1"].path = LoginPath
  /\ req["r1"].decision = Allow
  /\ req["r2"].pc = "routed" /\ req["r2"].hops = 1
  /\ isLoggedIn(req["r2"].auth) /\ req["r2"].path = DashboardPath
  /\ req["r2"].decision = Allow

====
